---- MODULE Spec2Model ----
(***************************************************************************)
(* A model of pygeopackage: the GeoPackage registry tables, the user       *)
(* tables with their rows, the GeoPackage binary header written by         *)
(* SpatialTable, and the write-through row object _Row.                    *)
(*                                                                         *)
(* Bytes are sequences of integers 0..255.  A Python value is a record     *)
(* [t, n, s, b]: t is the Python type, n an int payload, s a str payload   *)
(* or the kind of a dict, b a bytes payload or the coordinates of a dict.  *)
(* A stored SQLite value is such a record with t in null/int/text/blob.    *)
(***************************************************************************)
EXTENDS Integers, Sequences, FiniteSets, TLC

\* ------------------------------------------------------------------ bounds
MaxRows == 1        \* rows a user table may hold (inserts stop there)
MaxHandles == 1     \* _Row objects the caller keeps alive

\* ------------------------------------------------------------------ names
TableNames == {"fc"}
\* every spelling under which callers name a table, and the tables SQLite
\* tells apart (it resolves table names ignoring case)
Names == {"fc", "FC"}
NoValue == "None"

\* str.lower() on the names that occur as column / field names
Lower(s) ==
  CASE s = "OBJECTID" -> "objectid"
    [] s = "ObjectId" -> "objectid"
    [] s = "objectid" -> "objectid"
    [] s = "Shape"    -> "shape"
    [] s = "SHAPE"    -> "shape"
    [] s = "shape"    -> "shape"
    [] s = "EsriJSON" -> "esrijson"
    [] s = "GeoJSON"  -> "geojson"
    [] s = "WKT"      -> "wkt"
    [] s = "WKB"      -> "wkb"
    [] s = "Point"    -> "point"
    [] s = "Polygon"  -> "polygon"
    [] s = "Line"     -> "line"
    [] s = "FC"       -> "fc"
    [] OTHER          -> s
SqlTables == {Lower(n) : n \in Names}

\* ------------------------------------------------------------------ bytes
GP == <<71, 80>>
GB == <<71, 66>>
\* the literal b"0x000000000000f87f": eighteen ASCII characters
EMPTY_PATTERN == <<48, 120, 48, 48, 48, 48, 48, 48, 48, 48, 48, 48, 48, 48, 102, 56, 55, 102>>

Prefix(b, n) == IF Len(b) <= n THEN b ELSE SubSeq(b, 1, n)
Drop(b, n) == IF Len(b) <= n THEN <<>> ELSE SubSeq(b, n + 1, Len(b))

\* int.to_bytes(4, byteorder="little") of an unsigned value below 2^31
LittleEndian4(n) ==
  <<n % 256, (n \div 256) % 256, (n \div 65536) % 256, (n \div 16777216) % 256>>
BigEndian4(n) ==
  <<(n \div 16777216) % 256, (n \div 65536) % 256, (n \div 256) % 256, n % 256>>

\* struct.pack("<d", v) for the coordinate values the model uses
Float64LE(v) ==
  CASE v = 0  -> <<0, 0, 0, 0, 0, 0, 0, 0>>
    [] v = 1  -> <<0, 0, 0, 0, 0, 0, 240, 63>>
    [] v = 2  -> <<0, 0, 0, 0, 0, 0, 0, 64>>
    [] v = -1 -> <<0, 0, 0, 0, 0, 0, 240, 191>>
    [] v = -2 -> <<0, 0, 0, 0, 0, 0, 0, 192>>
Reverse(b) == [i \in 1..Len(b) |-> b[Len(b) + 1 - i]]

\* ------------------------------------------------------------------ values
PyNone == [s |-> "", n |-> 0, b |-> <<>>, t |-> "none"]
PyInt(i) == [s |-> "", n |-> i, b |-> <<>>, t |-> "int"]
PyStr(x) == [s |-> x, n |-> 0, b |-> <<>>, t |-> "str"]
PyBytes(x) == [s |-> "", n |-> 0, b |-> x, t |-> "bytes"]
PyByteArray(x) == [s |-> "", n |-> 0, b |-> x, t |-> "bytearray"]
\* an Esri JSON point {"x":..,"y":..} and a GeoJSON point {"type","coordinates"}
EsriPoint(x, y) == [s |-> "esri", n |-> 0, b |-> <<x, y>>, t |-> "dict"]
GeoJsonPoint(x, y) == [s |-> "geojson", n |-> 0, b |-> <<x, y>>, t |-> "dict"]
\* the WKT text "POINT (x y)"
WktPoint(x, y) == [s |-> "POINT", n |-> 0, b |-> <<x, y>>, t |-> "str"]

SqlNull == [s |-> "", n |-> 0, b |-> <<>>, t |-> "null"]
SqlInt(i) == [s |-> "", n |-> i, b |-> <<>>, t |-> "int"]
SqlText(x) == [s |-> x, n |-> 0, b |-> <<>>, t |-> "text"]
SqlBlob(x) == [s |-> "", n |-> 0, b |-> x, t |-> "blob"]

\* a failed computation, and a successful one carrying bytes
Raise(e) == [b |-> <<>>, err |-> e]
Ok(x) == [b |-> x, err |-> ""]

\* ------------------------------------------------------------------ inputs
\* the Esri JSON points, the other geometry encodings and the invalid values
\* that callers hand to insert and to row["Shape"]
PointA == EsriPoint(1, 2)
PointB == EsriPoint(-1, -2)

VARIABLES
  gpkg_contents,          \* table_name -> its gpkg_contents row
  gpkg_geometry_columns,  \* table_name -> its gpkg_geometry_columns row
  gpkg_spatial_ref_sys,   \* the srs_id values registered
  user_tables,            \* table_name -> the user table (schema and rows)
  row_handles,            \* the _Row objects the caller holds
  HASGEOMET,              \* whether the optional geomet package imported
  table_handle,           \* the Table object the caller holds
  outcome                 \* what the last call was and how it ended

vars == <<gpkg_contents, gpkg_geometry_columns, gpkg_spatial_ref_sys,
          user_tables, row_handles, HASGEOMET, table_handle, outcome>>

\* ------------------------------------------------------------------ schema
NoContentsRow == [data_type |-> "", srs_id |-> PyNone]
NoGeometryRow == [srs_id |-> PyNone, column_name |-> "", geometry_type_name |-> ""]
\* pk: OBJECTID is the INTEGER PRIMARY KEY AUTOINCREMENT column
NoTable ==
  [exists |-> FALSE, cols |-> <<>>, shape_decl |-> "", rows |-> {}, seq |-> 0, pk |-> FALSE]
NoHandle == [tbl |-> "", vals |-> <<>>, header |-> PyNone]
\* a Table object of table tbl: loaded when _fields is not None
NoTableHandle == [tbl |-> "", loaded |-> FALSE, fields |-> <<>>]
NoOutcome ==
  [err |-> "", tbl |-> "", op |-> "", oid |-> 0, h |-> 0, key |-> "", fmt |-> "",
   val |-> PyNone, res |-> PyNone, overwrite |-> FALSE]

\* the rows _create_gpkg seeds gpkg_spatial_ref_sys with
SeededSrs == {4326, -1, 0}
\* the WKID column of the built-in table prj.json that _load_data reads
LookupTable == {3857, 4326}

\* the geometry type keywords a converter is registered for
RegisteredConverters ==
  {"POINT", "LINESTRING", "POLYGON", "MULTIPOINT", "MULTILINESTRING", "MULTIPOLYGON"}

GeomLu(g) ==
  CASE g = "point"      -> "POINT"
    [] g = "multipoint" -> "MULTIPOINT"
    [] g = "polygon"    -> "MULTIPOLYGON"
    [] g = "polyline"   -> "POLYLINE"
    [] g = "line"       -> "POLYLINE"
    [] OTHER            -> ""

Init ==
  /\ gpkg_contents = [n \in Names |-> NoContentsRow]
  /\ gpkg_geometry_columns = [n \in Names |-> NoGeometryRow]
  /\ gpkg_spatial_ref_sys = SeededSrs
  /\ user_tables = [n \in SqlTables |-> NoTable]
  /\ row_handles = [h \in 1..MaxHandles |-> NoHandle]
  /\ HASGEOMET \in BOOLEAN
  /\ table_handle = NoTableHandle
  /\ outcome = NoOutcome

\* an existence test that compares the name as it is spelled
ExistsExact(name) ==
  \E n \in Names : gpkg_contents[n].data_type # "" /\ n = name

\* GeoPackage.exists: a case-insensitive scan of gpkg_contents
Exists(name) ==
  \E n \in Names : gpkg_contents[n].data_type # "" /\ Lower(n) = Lower(name)

\* lookup_coordinate_system for one integer id: the WKID found, or -2 for ValueError
LookupCoordinateSystem(wkid) ==
  LET w == IF wkid = 102100 THEN 3857 ELSE wkid
  IN IF w \in LookupTable THEN w ELSE -2

\* CREATE TABLE IF NOT EXISTS: an existing table is kept as it is
CreateTableIfNotExists(tables, name, cols, decl) ==
  IF tables[Lower(name)].exists THEN tables
  ELSE [tables EXCEPT ![Lower(name)] =
          [exists |-> TRUE, cols |-> cols, shape_decl |-> decl, rows |-> {}, seq |-> 0,
           pk |-> TRUE]]

\* _create_feature_class after the overwrite stage left (c, g, t): the state it
\* leaves and the error it raises ("" when it returns True)
CreateFeatureClass(c, g, t, name, geometry, wkid) ==
  LET gt == GeomLu(Lower(geometry))
      t2 == CreateTableIfNotExists(t, name, <<"OBJECTID", "Shape", "song">>, gt)
      c2 == [c EXCEPT ![name] = [data_type |-> "features", srs_id |-> wkid]]
      g2 == [g EXCEPT ![name] =
               [srs_id |-> wkid, column_name |-> "Shape", geometry_type_name |-> gt]]
      found == LookupCoordinateSystem(wkid.n)
      st(cc, gg, ss, tt, e) == [s |-> ss, t |-> tt, err |-> e, g |-> gg, c |-> cc]
  IN IF gt = "" THEN st(c, g, gpkg_spatial_ref_sys, t, "KeyError")
     ELSE IF c[name].data_type # "" THEN st(c, g, gpkg_spatial_ref_sys, t2, "IntegrityError")
     ELSE IF wkid.t = "none" \/ g[name].column_name # ""
          THEN st(c2, g, gpkg_spatial_ref_sys, t2, "IntegrityError")
     ELSE IF wkid.n \in gpkg_spatial_ref_sys THEN st(c2, g2, gpkg_spatial_ref_sys, t2, "")
     ELSE IF found = -2 THEN st(c2, g2, gpkg_spatial_ref_sys, t2, "ValueError")
     ELSE IF found \in gpkg_spatial_ref_sys
          THEN st(c2, g2, gpkg_spatial_ref_sys, t2, "IntegrityError")
     ELSE st(c2, g2, gpkg_spatial_ref_sys \cup {found}, t2, "")

\* _create_table: every failure is swallowed and reported as False ("False")
CreateTable(c, g, t, name) ==
  LET t2 == CreateTableIfNotExists(t, name, <<"OBJECTID", "song">>, "")
      c2 == [c EXCEPT ![name] = [data_type |-> "attributes", srs_id |-> PyNone]]
  IN IF c[name].data_type # ""
     THEN [s |-> gpkg_spatial_ref_sys, t |-> t2, err |-> "False", g |-> g, c |-> c]
     ELSE [s |-> gpkg_spatial_ref_sys, t |-> t2, err |-> "", g |-> g, c |-> c2]

\* GeoPackage.create(name, fields={"song": "TEXT"}, wkid, geometry_type, overwrite)
Create(name, wkid, geometry_type, overwrite) ==
  LET c1 == IF overwrite THEN [gpkg_contents EXCEPT ![name] = NoContentsRow]
            ELSE gpkg_contents
      g1 == IF overwrite THEN [gpkg_geometry_columns EXCEPT ![name] = NoGeometryRow]
            ELSE gpkg_geometry_columns
      t1 == IF overwrite THEN [user_tables EXCEPT ![Lower(name)] = NoTable] ELSE user_tables
      r == IF geometry_type # NoValue
           THEN CreateFeatureClass(c1, g1, t1, name, geometry_type, wkid)
           ELSE CreateTable(c1, g1, t1, name)
      \* the call (key tells whether a geometry_type was passed) and, when it
      \* returns, the class of the object returned: None when the create function
      \* reported False
      returned(e) == IF e # "" THEN PyNone
                     ELSE IF geometry_type # NoValue THEN PyStr("SpatialTable")
                     ELSE PyStr("Table")
      done(e) == [NoOutcome EXCEPT !.op = "create", !.tbl = name, !.err = e,
                                   !.overwrite = overwrite, !.res = returned(e),
                                   !.key = IF geometry_type = NoValue THEN NoValue
                                           ELSE "geometry_type"]
  IN IF ~overwrite /\ Exists(name)
     THEN /\ outcome' = done("ValueError")
          /\ UNCHANGED <<gpkg_contents, gpkg_geometry_columns, gpkg_spatial_ref_sys,
                         user_tables, row_handles, HASGEOMET, table_handle>>
     ELSE /\ gpkg_contents' = r.c
          /\ gpkg_geometry_columns' = r.g
          /\ gpkg_spatial_ref_sys' = r.s
          /\ user_tables' = r.t
          /\ outcome' = done(r.err)
          /\ UNCHANGED <<row_handles, HASGEOMET, table_handle>>

\* GeoPackage.get: the class of the object returned for the gpkg_contents row
\* whose table_name is spelled as name is, "None" when there is no such row
GeoPackageGet(name) ==
  IF gpkg_contents[name].data_type = "" THEN "None"
  ELSE IF gpkg_contents[name].data_type = "attributes" THEN "Table"
  ELSE "SpatialTable"

\* ------------------------------------------------------------------ header
\* SpatialTable._flag_to_bytes: int(code).to_bytes(1, byteorder="little")
FlagToBytes(code) ==
  IF code >= 0 /\ code <= 255 THEN Ok(<<code>>) ELSE Raise("OverflowError")

\* the SRS id written most significant byte first
SridToBytesBigEndian(srid) ==
  IF srid.t # "int" THEN Raise("TypeError")
  ELSE IF srid.n < 0 THEN Raise("OverflowError")
  ELSE Ok(BigEndian4(srid.n))

\* SpatialTable._srid_to_bytes: int(srid).to_bytes(4, byteorder="little");
\* int(None) is a TypeError, a negative value does not fit an unsigned field
SridToBytes(srid) ==
  IF srid.t # "int" THEN Raise("TypeError")
  ELSE IF srid.n < 0 THEN Raise("OverflowError")
  ELSE Ok(LittleEndian4(srid.n))

\* SpatialTable._build_gp_header(version=0, empty=1)
BuildGpHeader(wkid, version, empty) ==
  LET v == FlagToBytes(version)
      f == FlagToBytes(empty)
      w == SridToBytes(wkid)
  IN IF v.err # "" THEN v
     ELSE IF f.err # "" THEN f
     ELSE IF w.err # "" THEN w
     ELSE Ok(GP \o v.b \o f.b \o w.b)

\* SpatialTable.wkid after _refresh: srs_id of the table's gpkg_geometry_columns
\* row, None when there is none
Wkid(name) == gpkg_geometry_columns[name].srs_id

\* SpatialTable._gpheader of a table object obtained with GeoPackage.get(name)
GpHeader(name) == BuildGpHeader(Wkid(name), 0, 1)

\* ------------------------------------------------------------------ codecs
\* _wkb.dumps(obj, big_endian=False) of an Esri JSON point: ISO WKB, little-endian
dumps(obj) == <<1>> \o LittleEndian4(1) \o Float64LE(obj.b[1]) \o Float64LE(obj.b[2])

\* geomet.wkb.dumps(obj) of a GeoJSON point: big-endian WKB
GeometWkbDumps(obj) ==
  <<0>> \o BigEndian4(1) \o Reverse(Float64LE(obj.b[1])) \o Reverse(Float64LE(obj.b[2]))

\* geomet.wkt.loads(text) of a WKT point: the GeoJSON point
GeometWktLoads(v) == GeoJsonPoint(v.b[1], v.b[2])

\* header + payload in Python: a TypeError unless the header is bytes
Add(header, payload) ==
  IF header.t = "bytes" THEN Ok(header.b \o payload) ELSE Raise("TypeError")

\* the Shape branch of SpatialTable.insert (lines 909-938): the bytes it stores
\* for value v under geom_format fmt, hdr being the result of self._gpheader
InsertShape(hdr, v, fmt) ==
  LET f == Lower(fmt)
      wrap(payload) == IF hdr.err # "" THEN hdr ELSE Ok(hdr.b \o payload)
  IN IF v.t = "dict" /\ f = "esrijson" THEN wrap(dumps(v))
     ELSE IF v.t = "dict" /\ f = "geojson" THEN wrap(GeometWkbDumps(v))
     ELSE IF v.t = "str" /\ f = "wkt" THEN wrap(GeometWkbDumps(GeometWktLoads(v)))
     ELSE IF v.t \in {"bytes", "bytearray"}
          THEN IF Len(v.b) > 2 /\ Prefix(v.b, 2) # GB THEN wrap(v.b) ELSE Ok(v.b)
     ELSE IF v.t = "none" THEN wrap(EMPTY_PATTERN)
     ELSE Raise("ValueError")

\* _Row.__getattr__("_gpheader"): no such attribute and no such key, so None
RowGpHeader(row) == PyNone

\* the Shape branch of _Row._update with a last branch that stores the value
UpdateShapeAnyValue(row, v) ==
  IF v.t = "dict" /\ v.s # "geojson" THEN Add(row.header, dumps(v))
  ELSE IF v.t = "dict"
       THEN IF ~HASGEOMET THEN Raise("NameError")
            ELSE Add(RowGpHeader(row), GeometWkbDumps(v))
  ELSE IF v.t = "str"
       THEN IF ~HASGEOMET THEN Raise("NameError")
            ELSE Add(RowGpHeader(row), GeometWkbDumps(GeometWktLoads(v)))
  ELSE IF v.t \in {"bytes", "bytearray"}
       THEN IF Len(v.b) > 2 /\ Prefix(v.b, 2) # GB THEN Add(RowGpHeader(row), v.b)
            ELSE Ok(v.b)
  ELSE IF v.t = "none" THEN Add(RowGpHeader(row), EMPTY_PATTERN)
  ELSE Ok(<<v.n>>)

\* the Shape branch of _Row._update (lines 360-381)
UpdateShape(row, v) ==
  IF v.t = "dict" /\ v.s # "geojson" THEN Add(row.header, dumps(v))
  ELSE IF v.t = "dict"
       THEN IF ~HASGEOMET THEN Raise("NameError")
            ELSE Add(RowGpHeader(row), GeometWkbDumps(v))
  ELSE IF v.t = "str"
       THEN IF ~HASGEOMET THEN Raise("NameError")
            ELSE Add(RowGpHeader(row), GeometWkbDumps(GeometWktLoads(v)))
  ELSE IF v.t \in {"bytes", "bytearray"}
       THEN IF Len(v.b) > 2 /\ Prefix(v.b, 2) # GB THEN Add(RowGpHeader(row), v.b)
            ELSE Ok(v.b)
  ELSE IF v.t = "none" THEN Add(RowGpHeader(row), EMPTY_PATTERN)
  ELSE Raise("ValueError")

\* ------------------------------------------------------------------ sqlite
\* binding a Python parameter: the SQLite value stored ("error" if unsupported)
Bind(v) ==
  CASE v.t = "none" -> SqlNull
    [] v.t = "int" -> SqlInt(v.n)
    [] v.t = "str" -> SqlText(v.s)
    [] v.t \in {"bytes", "bytearray"} -> SqlBlob(v.b)
    [] OTHER -> [s |-> "", n |-> 0, b |-> <<>>, t |-> "error"]

\* _handle_wkb, the converter registered for the geometry type keywords
HandleWkb(b) == PyByteArray(b)

\* reading column c of a table whose Shape column is declared decl
Fetch(c, decl, v) ==
  CASE v.t = "null" -> PyNone
    [] v.t = "int" -> PyInt(v.n)
    [] v.t = "text" -> PyStr(v.s)
    [] v.t = "blob" ->
         IF c = "Shape" /\ decl \in RegisteredConverters THEN HandleWkb(v.b)
         ELSE PyBytes(v.b)

SeqToSet(q) == {q[i] : i \in 1..Len(q)}
\* the column of the table that SQLite resolves name k to (case-insensitive)
Column(cols, k) ==
  IF \E i \in 1..Len(cols) : Lower(cols[i]) = Lower(k)
  THEN cols[CHOOSE i \in 1..Len(cols) : Lower(cols[i]) = Lower(k)]
  ELSE ""

RowWithOid(rows, oid) == {r \in rows : r["OBJECTID"] = SqlInt(oid)}

\* ------------------------------------------------------------------ insert
\* INSERT INTO name (keys) VALUES (...) and commit: pairs is the row dictionary.
\* OBJECTID is assigned while it is the autoincrement primary key; seq counts the
\* rows inserted into the table
SqlInsert(name, pairs) ==
  LET t == user_tables[Lower(name)]
      oid == t.seq + 1
      given(c) == {i \in 1..Len(pairs) : Column(t.cols, pairs[i].k) = c}
      value(c) == IF c = "OBJECTID" /\ t.pk THEN SqlInt(oid)
                  ELSE IF given(c) = {} THEN SqlNull
                  ELSE Bind(pairs[CHOOSE i \in given(c) : TRUE].v)
      row == [c \in SeqToSet(t.cols) |-> value(c)]
  IN IF ~t.exists \/ \E i \in 1..Len(pairs) : Column(t.cols, pairs[i].k) = ""
     THEN [t |-> user_tables, err |-> "OperationalError", oid |-> 0]
     ELSE IF \E i \in 1..Len(pairs) : Bind(pairs[i].v).t = "error"
     THEN [t |-> user_tables, err |-> "ProgrammingError", oid |-> 0]
     ELSE [t |-> [user_tables EXCEPT ![Lower(name)].rows = @ \cup {row}, ![Lower(name)].seq = oid],
           err |-> "", oid |-> oid]

\* Table.insert / SpatialTable.insert of the row {"song": song, key: geom} (no
\* Shape entry when key is NoValue) through the object GeoPackage.get(name) gives
Insert(name, key, geom, fmt, song) ==
  LET spatial == gpkg_contents[name].data_type # "attributes"
      enc == IF spatial /\ key # NoValue THEN InsertShape(GpHeader(name), geom, fmt)
             ELSE Ok(<<>>)
      shape == IF spatial THEN PyBytes(enc.b) ELSE geom
      pairs == <<[v |-> PyStr(song), k |-> "song"]>>
               \o (IF key # NoValue THEN <<[v |-> shape, k |-> key]>> ELSE <<>>)
      r == SqlInsert(name, pairs)
      done(e, oid) ==
        [NoOutcome EXCEPT !.op = "insert", !.tbl = name, !.err = e, !.oid = oid,
                          !.key = key, !.fmt = fmt, !.val = geom]
  IN /\ gpkg_contents[name].data_type # ""
     /\ user_tables[Lower(name)].seq < MaxRows
     /\ IF spatial /\ ~HASGEOMET /\ Lower(fmt) \in {"wkt", "geojson"}
        THEN outcome' = done("ValueError", 0) /\ UNCHANGED user_tables
        ELSE IF enc.err # ""
        THEN outcome' = done(enc.err, 0) /\ UNCHANGED user_tables
        ELSE outcome' = done(r.err, r.oid) /\ user_tables' = r.t
     /\ UNCHANGED <<gpkg_contents, gpkg_geometry_columns, gpkg_spatial_ref_sys,
                    row_handles, HASGEOMET, table_handle>>

\* ------------------------------------------------------------------ rows
\* the fields argument of rows: a string ("*" or one column name), a list or a
\* tuple of column names
PyList(ids) == [s |-> "", n |-> 0, b |-> ids, t |-> "list"]
PyTuple(names) == [s |-> "", n |-> 0, b |-> names, t |-> "tuple"]

RECURSIVE Unique(_)
\* the keys of dict(zip(columns, row)): each column name once, at its first place
Unique(q) ==
  IF q = <<>> THEN <<>>
  ELSE LET rest == Unique(SubSeq(q, 1, Len(q) - 1))
       IN IF q[Len(q)] \in SeqToSet(rest) THEN rest ELSE Append(rest, q[Len(q)])

\* the columns of SELECT {fields}, under the names the table declares them
\* ("" for a name that is no column): a list gets OBJECTID appended when it has
\* no item "OBJECTID", a tuple that has none raises AttributeError (tuples have no
\* append), and a string is used as it is
SelectColumns(cols, fields) ==
  LET q == IF fields.t = "str" THEN <<fields.s>>
           ELSE IF "OBJECTID" \in SeqToSet(fields.b) THEN fields.b
           ELSE Append(fields.b, "OBJECTID")
  IN IF fields.t = "tuple" /\ "OBJECTID" \notin SeqToSet(fields.b)
     THEN Raise("AttributeError")
     ELSE IF fields = PyStr("*") THEN Ok(cols)
     ELSE Ok(Unique([i \in 1..Len(q) |-> Column(cols, q[i])]))

\* Table.rows / SpatialTable.rows(where="OBJECTID=oid", fields): the caller keeps
\* the _Row yielded for row oid in slot h
Rows(name, fields, oid, h) ==
  LET t == user_tables[Lower(name)]
      spatial == gpkg_contents[name].data_type # "attributes"
      selected == SelectColumns(t.cols, fields)
      columns == selected.b
      stored == CHOOSE r \in RowWithOid(t.rows, oid) : TRUE
      hdr == GpHeader(name)
      row == [tbl |-> name,
              vals |-> [i \in 1..Len(columns) |->
                          [v |-> Fetch(columns[i], t.shape_decl, stored[columns[i]]),
                           k |-> columns[i]]],
              header |-> IF spatial THEN PyBytes(hdr.b) ELSE PyNone]
      done(e) == [NoOutcome EXCEPT !.op = "rows", !.tbl = name, !.err = e,
                                   !.oid = oid, !.h = h, !.val = fields]
  IN /\ gpkg_contents[name].data_type # ""
     /\ RowWithOid(t.rows, oid) # {}
     /\ IF selected.err # ""
        THEN outcome' = done(selected.err) /\ UNCHANGED row_handles
        ELSE IF "" \in SeqToSet(columns)
        THEN outcome' = done("OperationalError") /\ UNCHANGED row_handles
        ELSE IF spatial /\ hdr.err # ""
        THEN outcome' = done(hdr.err) /\ UNCHANGED row_handles
        ELSE outcome' = done("") /\ row_handles' = [row_handles EXCEPT ![h] = row]
     /\ UNCHANGED <<gpkg_contents, gpkg_geometry_columns, gpkg_spatial_ref_sys,
                    user_tables, HASGEOMET, table_handle>>

\* ------------------------------------------------------------------ Table
\* PRAGMA table_info(tbl): the column names, none for a table that does not exist
TableInfo(tbl) ==
  IF user_tables[Lower(tbl)].exists THEN user_tables[Lower(tbl)].cols ELSE <<>>

\* Table.fields as the property returns it: the cached names once loaded
Fields(handle) == IF handle.loaded THEN handle.fields ELSE TableInfo(handle.tbl)

\* a Table object after its fields property was read
Loaded(handle) == [tbl |-> handle.tbl, loaded |-> TRUE, fields |-> Fields(handle)]

\* Table.add_field._field_lookup: the keys, looked up as data_type.lower()
FieldLookup == {"text", "float", "double", "short", "long", "integer", "date", "blob", "guid"}

\* the declared type CREATE TABLE ... AS SELECT gives a column declared decl:
\* the name of its affinity
AffinityDecl(decl) ==
  CASE decl = "" -> ""
    [] decl \in {"POINT", "MULTIPOINT"} -> "INT"
    [] OTHER -> "NUM"

RECURSIVE Without(_, _)
\* [fld for fld in fields if fld.lower() != name.lower()]
Without(fields, name) ==
  IF fields = <<>> THEN <<>>
  ELSE (IF Lower(Head(fields)) # Lower(name) THEN <<Head(fields)>> ELSE <<>>)
       \o Without(Tail(fields), name)

\* GeoPackage.get(name): the caller keeps the Table or SpatialTable returned
GetTable(name) ==
  /\ outcome' = [NoOutcome EXCEPT !.op = "get", !.tbl = name,
                                  !.res = IF GeoPackageGet(name) = "None" THEN PyNone
                                          ELSE PyStr(GeoPackageGet(name))]
  /\ table_handle' = IF GeoPackageGet(name) = "None" THEN table_handle
                     ELSE [NoTableHandle EXCEPT !.tbl = name]
  /\ UNCHANGED <<gpkg_contents, gpkg_geometry_columns, gpkg_spatial_ref_sys,
                 user_tables, row_handles, HASGEOMET>>

\* reading Table.fields: the first read after a reset loads and caches the names
ReadFields ==
  /\ table_handle.tbl # ""
  /\ table_handle' = Loaded(table_handle)
  /\ outcome' = [NoOutcome EXCEPT !.op = "fields", !.tbl = table_handle.tbl]
  /\ UNCHANGED <<gpkg_contents, gpkg_geometry_columns, gpkg_spatial_ref_sys,
                 user_tables, row_handles, HASGEOMET>>

\* Table.add_field(name, data_type): ALTER TABLE ... ADD COLUMN, commit, reset
\* of _fields, True; every failure (a data type that is not a key of
\* _field_lookup, no such table, a column of that name) is reported as False
AddField(name, data_type) ==
  LET tbl == table_handle.tbl
      t == user_tables[Lower(tbl)]
      failed == \/ Lower(data_type) \notin FieldLookup
                \/ ~t.exists
                \/ Column(t.cols, name) # ""
      done(e) == [NoOutcome EXCEPT !.op = "add_field", !.tbl = tbl, !.key = name,
                                   !.fmt = data_type, !.err = e]
  IN /\ tbl # ""
     /\ IF failed
        THEN /\ outcome' = done("False")
             /\ UNCHANGED <<user_tables, table_handle>>
        ELSE /\ user_tables' =
                  [user_tables EXCEPT
                     ![Lower(tbl)].cols = Append(@, name),
                     ![Lower(tbl)].rows =
                        {[c \in DOMAIN r \cup {name} |->
                            IF c = name THEN SqlNull ELSE r[c]] : r \in @}]
             /\ table_handle' = [table_handle EXCEPT !.loaded = FALSE, !.fields = <<>>]
             /\ outcome' = done("")
     /\ UNCHANGED <<gpkg_contents, gpkg_geometry_columns, gpkg_spatial_ref_sys,
                    row_handles, HASGEOMET>>

\* delete_field without the reset of _fields
DeleteFieldKeepsCache(name) ==
  LET tbl == table_handle.tbl
      t == user_tables[Lower(tbl)]
      kept == Without(Fields(table_handle), name)
      columns == [i \in 1..Len(kept) |-> Column(t.cols, kept[i])]
      failed == kept = <<>> \/ ~t.exists \/ "" \in SeqToSet(columns)
      done(e) == [NoOutcome EXCEPT !.op = "delete_field", !.tbl = tbl, !.key = name,
                                   !.err = e]
  IN /\ tbl # ""
     /\ IF failed
        THEN /\ outcome' = done("OperationalError")
             /\ table_handle' = Loaded(table_handle)
             /\ UNCHANGED user_tables
        ELSE /\ user_tables' =
                  [user_tables EXCEPT
                     ![Lower(tbl)].cols = columns,
                     ![Lower(tbl)].shape_decl =
                        IF "Shape" \in SeqToSet(columns) THEN AffinityDecl(@) ELSE "",
                     ![Lower(tbl)].rows = {[c \in SeqToSet(columns) |-> r[c]] : r \in @},
                     ![Lower(tbl)].pk = FALSE]
             /\ table_handle' = Loaded(table_handle)
             /\ outcome' = done("")
     /\ UNCHANGED <<gpkg_contents, gpkg_geometry_columns, gpkg_spatial_ref_sys,
                    row_handles, HASGEOMET>>

\* Table.delete_field(name): the fields property is read, then the script
\* CREATE TABLE temp_bkup AS SELECT {kept fields} FROM tbl; DROP TABLE tbl;
\* ALTER TABLE temp_bkup RENAME TO tbl runs, then commit and reset of _fields.
\* The copy has neither the primary key nor the declared types.  Its first
\* statement fails, and the call raises, when no field is kept, when the table
\* does not exist and when a kept field is not a column of it.
DeleteField(name) ==
  LET tbl == table_handle.tbl
      t == user_tables[Lower(tbl)]
      kept == Without(Fields(table_handle), name)
      columns == [i \in 1..Len(kept) |-> Column(t.cols, kept[i])]
      failed == kept = <<>> \/ ~t.exists \/ "" \in SeqToSet(columns)
      done(e) == [NoOutcome EXCEPT !.op = "delete_field", !.tbl = tbl, !.key = name,
                                   !.err = e]
  IN /\ tbl # ""
     /\ IF failed
        THEN /\ outcome' = done("OperationalError")
             /\ table_handle' = Loaded(table_handle)
             /\ UNCHANGED user_tables
        ELSE /\ user_tables' =
                  [user_tables EXCEPT
                     ![Lower(tbl)].cols = columns,
                     ![Lower(tbl)].shape_decl =
                        IF "Shape" \in SeqToSet(columns) THEN AffinityDecl(@) ELSE "",
                     ![Lower(tbl)].rows = {[c \in SeqToSet(columns) |-> r[c]] : r \in @},
                     ![Lower(tbl)].pk = FALSE]
             /\ table_handle' = [table_handle EXCEPT !.loaded = FALSE, !.fields = <<>>]
             /\ outcome' = done("")
     /\ UNCHANGED <<gpkg_contents, gpkg_geometry_columns, gpkg_spatial_ref_sys,
                    row_handles, HASGEOMET>>

\* ------------------------------------------------------------------ _Row
Keys(vals) == [i \in 1..Len(vals) |-> vals[i].k]
HasKey(vals, k) == \E i \in 1..Len(vals) : vals[i].k = k
Get(vals, k) == vals[CHOOSE i \in 1..Len(vals) : vals[i].k = k].v
\* self._values[name] = value: replaces in place, or appends a new key
SetValue(vals, k, v) ==
  IF HasKey(vals, k)
  THEN [i \in 1..Len(vals) |-> IF vals[i].k = k THEN [v |-> v, k |-> k] ELSE vals[i]]
  ELSE Append(vals, [v |-> v, k |-> k])

\* the SET list _Row._update builds (lines 354-383), in dictionary order: every
\* key but OBJECTID, the Shape keys encoded; err is the first error raised
RECURSIVE SetList(_, _, _)
SetList(row, vals, i) ==
  IF i > Len(vals) THEN [err |-> "", set |-> <<>>]
  ELSE LET k == vals[i].k
           v == vals[i].v
           enc == IF Lower(k) = "shape" THEN UpdateShape(row, v) ELSE Ok(<<>>)
           rest == SetList(row, vals, i + 1)
       IN IF Lower(k) = "objectid" THEN rest
          ELSE IF enc.err # "" THEN [err |-> enc.err, set |-> <<>>]
          ELSE IF rest.err # "" THEN rest
          ELSE [err |-> "",
                set |-> <<[v |-> IF Lower(k) = "shape" THEN PyBytes(enc.b) ELSE v, k |-> k]>>
                        \o rest.set]

\* UPDATE tbl SET k=?,... WHERE OBJECTID=oid: when a column is assigned more than
\* once SQLite keeps the rightmost assignment
SqlUpdate(tables, tbl, set, oid) ==
  LET t == tables[Lower(tbl)]
      hits(c) == {i \in 1..Len(set) : Column(t.cols, set[i].k) = c}
      last(c) == CHOOSE i \in hits(c) : \A j \in hits(c) : j <= i
      upd(r) == [c \in DOMAIN r |-> IF hits(c) = {} THEN r[c] ELSE Bind(set[last(c)].v)]
  IN IF ~t.exists \/ \E i \in 1..Len(set) : Column(t.cols, set[i].k) = ""
     THEN [t |-> tables, err |-> "OperationalError"]
     ELSE IF \E i \in 1..Len(set) : Bind(set[i].v).t = "error"
     THEN [t |-> tables, err |-> "ProgrammingError"]
     ELSE [t |-> [tables EXCEPT ![Lower(tbl)].rows =
                    {IF r["OBJECTID"] = SqlInt(oid) THEN upd(r) ELSE r : r \in @}],
           err |-> ""]

\* _Row._update on the row object whose values are vals: the tables it leaves
\* and the error it raises
Update(row, vals) ==
  LET sl == SetList(row, vals, 1)
  IN IF sl.err # "" THEN [t |-> user_tables, err |-> sl.err]
     ELSE IF ~HasKey(vals, "OBJECTID") THEN [t |-> user_tables, err |-> "KeyError"]
     ELSE SqlUpdate(user_tables, row.tbl, sl.set, Get(vals, "OBJECTID").n)

\* __setattr__ without the OBJECTID test on its field branch
SetAttrBranchAnyKey(vals, name) ==
  IF Lower(name) = "shape" THEN "shape"
  ELSE IF HasKey(vals, name) THEN "field"
  ELSE IF Lower(name) = "objectid" THEN "objectid"
  ELSE "missing"

\* which branch of _Row.__setattr__ (lines 304-314) a field name takes
SetAttrBranch(vals, name) ==
  IF Lower(name) = "shape" THEN "shape"
  ELSE IF Lower(name) # "objectid" /\ HasKey(vals, name) THEN "field"
  ELSE IF Lower(name) = "objectid" THEN "objectid"
  ELSE "missing"

\* row[name] = value and row.name = value on the _Row in slot h
SetItem(h, name, value) ==
  LET row == row_handles[h]
      branch == SetAttrBranch(row.vals, name)
      vals2 == SetValue(row.vals, name, value)
      u == Update(row, vals2)
      done(e) == [NoOutcome EXCEPT !.op = "setitem", !.tbl = row.tbl, !.err = e,
                                   !.h = h, !.key = name, !.val = value]
  IN /\ row.tbl # ""
     /\ IF branch \in {"shape", "field"}
        THEN /\ row_handles' = [row_handles EXCEPT ![h].vals = vals2]
             /\ user_tables' = u.t
             /\ outcome' = done(u.err)
        ELSE /\ outcome' = done("ValueError")
             /\ UNCHANGED <<row_handles, user_tables>>
     /\ UNCHANGED <<gpkg_contents, gpkg_geometry_columns, gpkg_spatial_ref_sys, HASGEOMET, table_handle>>

\* DELETE FROM tbl WHERE OBJECTID=?: no row matches a NULL parameter
SqlDelete(tables, tbl, oid) ==
  [tables EXCEPT ![Lower(tbl)].rows = {r \in @ : oid = SqlNull \/ r["OBJECTID"] # oid}]

\* _Row.delete on the row object in slot h: self["OBJECTID"] is None for a row
\* object without that key; every failure of the statement (no such table, no
\* OBJECTID column) is swallowed and reported as False
Delete(h) ==
  LET row == row_handles[h]
      t == user_tables[Lower(row.tbl)]
      oid == IF HasKey(row.vals, "OBJECTID") THEN Get(row.vals, "OBJECTID") ELSE PyNone
      failed == ~t.exists \/ Column(t.cols, "OBJECTID") = ""
      done(e) == [NoOutcome EXCEPT !.op = "delete", !.tbl = row.tbl, !.err = e, !.h = h]
  IN /\ row.tbl # ""
     /\ IF failed
        THEN outcome' = done("False") /\ UNCHANGED user_tables
        ELSE outcome' = done("") /\ user_tables' = SqlDelete(user_tables, row.tbl, Bind(oid))
     /\ UNCHANGED <<gpkg_contents, gpkg_geometry_columns, gpkg_spatial_ref_sys,
                    row_handles, HASGEOMET, table_handle>>

\* ------------------------------------------------------------------ _rtree
\* _strip_header: drops eight bytes when the value starts with b"GB"
StripHeader(g) == IF Prefix(g, 2) = GB THEN Drop(g, 8) ELSE g

\* ST_IsEmpty: None for NULL, 1 when the stripped value is the empty pattern
ST_IsEmpty(geom) ==
  IF geom.t = "none" THEN PyNone
  ELSE IF StripHeader(geom.b) = EMPTY_PATTERN THEN PyInt(1)
  ELSE PyInt(0)

\* ------------------------------------------------------------------ next
\* bytes that already carry a marker: the output of an earlier insert of PointA
\* into a table of SRS 4326, and the same bytes under the GB marker
EncodedGP ==
  PyBytes(GP \o <<0, 1>> \o LittleEndian4(4326) \o
          <<1>> \o LittleEndian4(1) \o Float64LE(1) \o Float64LE(2))
MarkedGB ==
  PyBytes(GB \o <<0, 1>> \o LittleEndian4(4326) \o
          <<1>> \o LittleEndian4(1) \o Float64LE(1) \o Float64LE(2))
RawWkb == PyBytes(<<1>> \o LittleEndian4(1) \o Float64LE(1) \o Float64LE(2))

\* Spec: the row object.  One feature class or attribute table "fc", rows
\* inserted with or without a geometry, read with rows() and assigned to.
FieldNameInputs == {"OBJECTID", "objectid", "Shape", "SHAPE", "song", "nofield"}
FieldsInputs == {PyStr("*"), PyList(<<"song">>)}
AssignInputs(name) ==
  IF Lower(name) = "shape" THEN {PointA, PointB, PyNone, MarkedGB, PyInt(5)}
  ELSE IF Lower(name) = "objectid" THEN {PyInt(2)}
  ELSE {PyStr("b")}

Next ==
  \/ \E name \in TableNames, gt \in {NoValue, "point"}, overwrite \in BOOLEAN :
        Create(name, PyInt(4326), gt, overwrite)
  \/ \E name \in TableNames, key \in {NoValue, "Shape"}, geom \in {PointA, PyInt(5)} :
        Insert(name, key, geom, "EsriJSON", "a")
  \/ \E name \in TableNames, fields \in FieldsInputs, oid \in 1..MaxRows,
        h \in 1..MaxHandles : Rows(name, fields, oid, h)
  \/ \E h \in 1..MaxHandles, name \in FieldNameInputs :
        \E value \in AssignInputs(name) : SetItem(h, name, value)

Spec == Init /\ [][Next]_vars

\* SpecInsert: the header and the stored geometry.  Feature classes of several
\* SRS ids and geometry types, every geometry input under every geom_format.
WkidInputs == {PyNone, PyInt(-1), PyInt(0), PyInt(4326), PyInt(3857)}
GeometryTypeInputs == {NoValue, "point", "line"}
GeomFormatInputs == {"EsriJSON", "GeoJSON", "WKT", "WKB"}
GeometryInputs ==
  {PointA, PointB, GeoJsonPoint(1, 2), WktPoint(1, 2), RawWkb,
   PyByteArray(RawWkb.b), EncodedGP, MarkedGB, PyBytes(GP), PyNone, PyInt(5)}
\* an Esri dictionary is not handed over as GeoJSON, nor a GeoJSON one as Esri
FormatFits(geom, fmt) ==
  ~(geom.t = "dict" /\ ((geom.s = "esri" /\ fmt = "GeoJSON") \/
                        (geom.s = "geojson" /\ fmt = "EsriJSON")))

NextInsert ==
  \/ \E name \in TableNames, wkid \in WkidInputs, gt \in GeometryTypeInputs :
        Create(name, wkid, gt, TRUE)
  \/ \E name \in TableNames, key \in {NoValue, "Shape", "SHAPE"}, geom \in GeometryInputs,
        fmt \in GeomFormatInputs, song \in {"a"} :
        FormatFits(geom, fmt) /\ Insert(name, key, geom, fmt, song)

SpecInsert == Init /\ [][NextInsert]_vars

\* GeoPackage.__len__: SELECT count(*) FROM gpkg_contents
GeoPackageLen == Cardinality({n \in Names : gpkg_contents[n].data_type # ""})

\* GeoPackage.tables: one table object per row of gpkg_contents, a Table for an
\* attributes row and a SpatialTable for any other
Tables ==
  {[table |-> n,
    class |-> IF gpkg_contents[n].data_type = "attributes" THEN "Table"
              ELSE "SpatialTable"] : n \in {m \in Names : gpkg_contents[m].data_type # ""}}

\* ------------------------------------------------------------------ envelope
\* ST_MinX: strips the header, calls _wkb.dumps on the bytes and returns None;
\* what dumps does with bytes is not in the source, so the call may also raise
ST_MinX(geom) ==
  IF geom.t = "none" THEN {Raise("TypeError")}
  ELSE {Ok(<<>>), Raise("Exception")}

\* ST_MinY, ST_MaxX, ST_MaxY: strip the header and return None
ST_MinY(geom) == IF geom.t = "none" THEN {Raise("TypeError")} ELSE {Ok(<<>>)}
ST_MaxX(geom) == IF geom.t = "none" THEN {Raise("TypeError")} ELSE {Ok(<<>>)}
ST_MaxY(geom) == IF geom.t = "none" THEN {Raise("TypeError")} ELSE {Ok(<<>>)}

\* a call of _strip_header on buffer g
StripHeaderCall(g) ==
  /\ outcome' = [NoOutcome EXCEPT !.op = "_strip_header", !.val = g,
                                  !.res = PyBytes(StripHeader(g.b))]
  /\ UNCHANGED <<gpkg_contents, gpkg_geometry_columns, gpkg_spatial_ref_sys,
                 user_tables, row_handles, HASGEOMET, table_handle>>

\* a call of one of the envelope functions on geometry value geom; every one of
\* them returns None when it returns
EnvelopeCall(fn, geom) ==
  /\ \E r \in (CASE fn = "ST_MinX" -> ST_MinX(geom)
                  [] fn = "ST_MinY" -> ST_MinY(geom)
                  [] fn = "ST_MaxX" -> ST_MaxX(geom)
                  [] fn = "ST_MaxY" -> ST_MaxY(geom)) :
        outcome' = [NoOutcome EXCEPT !.op = fn, !.err = r.err, !.val = geom,
                                     !.res = PyNone]
  /\ UNCHANGED <<gpkg_contents, gpkg_geometry_columns, gpkg_spatial_ref_sys,
                 user_tables, row_handles, HASGEOMET, table_handle>>

\* _wkb.dumps of an Esri JSON multipoint {"points": [[x, y], ...]}: ISO WKB,
\* little-endian, type 4, the point count, then one WKB point per point
RECURSIVE PointsWkb(_)
PointsWkb(pts) ==
  IF pts = <<>> THEN <<>>
  ELSE <<1>> \o LittleEndian4(1) \o Float64LE(Head(pts)[1]) \o Float64LE(Head(pts)[2])
       \o PointsWkb(Tail(pts))
dumpsMultiPoint(pts) == <<1>> \o LittleEndian4(4) \o LittleEndian4(Len(pts)) \o PointsWkb(pts)

\* SpecRtree: the functions of _rtree on stored multipoints of one or two
\* points, under the GP header that insert writes, under the GB marker, and bare
Ordinates == {-1, 1, 2}
MultiPoints ==
  LET P == Ordinates \X Ordinates
  IN {<<p>> : p \in P} \cup {<<p, q>> : p \in P, q \in P}
RtreeMarkers == {GP \o <<0, 1>> \o LittleEndian4(4326), GB \o <<0, 1>> \o LittleEndian4(4326), <<>>}
RtreeBuffers == {PyBytes(m \o dumpsMultiPoint(pts)) : m \in RtreeMarkers, pts \in MultiPoints}
EnvelopeFunctions == {"ST_MinX", "ST_MinY", "ST_MaxX", "ST_MaxY"}

NextRtree ==
  \/ \E g \in RtreeBuffers : StripHeaderCall(g)
  \/ \E fn \in EnvelopeFunctions, g \in RtreeBuffers : EnvelopeCall(fn, g)

SpecRtree == Init /\ [][NextRtree]_vars

\* ------------------------------------------------------------------ _coord
\* the WKID column of the lookup table, in the order of its rows
LookupRows == <<3857, 4326>>
\* lookup_coordinate_system(wkid): the WKIDs of the records returned, in table
\* order.  An integer selects the rows equal to it (102100 standing for 3857), a
\* list the rows whose WKID is in it (isin); no row selected is a ValueError.
LookupRecords(wkid) ==
  LET w == IF wkid = PyInt(102100) THEN PyInt(3857) ELSE wkid
      hit(id) == IF w.t = "int" THEN id = w.n ELSE id \in SeqToSet(w.b)
      found == SelectSeq(LookupRows, hit)
  IN IF w.t \notin {"int", "list"} THEN Raise("ValueError")
     ELSE IF found = <<>> THEN Raise("ValueError")
     ELSE Ok(found)

\* a call of lookup_coordinate_system
Lookup(wkid) ==
  LET r == LookupRecords(wkid)
  IN /\ outcome' = [NoOutcome EXCEPT !.op = "lookup", !.err = r.err, !.val = wkid,
                                     !.res = PyList(r.b)]
     /\ UNCHANGED <<gpkg_contents, gpkg_geometry_columns, gpkg_spatial_ref_sys,
                    user_tables, row_handles, HASGEOMET, table_handle>>

\* SpecLookup: lookup_coordinate_system on single ids and on lists of up to
\* MaxIds ids, known and unknown
MaxIds == 3
LookupIds == {3857, 4326, 9999, 102100}
RECURSIVE IdLists(_)
IdLists(n) ==
  IF n = 0 THEN {<<>>}
  ELSE IdLists(n - 1) \cup {Append(q, id) : q \in {x \in IdLists(n - 1) : Len(x) = n - 1},
                                             id \in LookupIds}
LookupInputs ==
  {PyInt(id) : id \in LookupIds} \cup {PyList(q) : q \in IdLists(MaxIds)}
     \cup {PyStr("4326")}

NextLookup == \E wkid \in LookupInputs : Lookup(wkid)

SpecLookup == Init /\ [][NextLookup]_vars

\* SpecCreate: the schema.  Tables and feature classes created, and created
\* again, under two spellings of one name, with registered, resolvable and
\* unknown SRS ids and every geometry type keyword; rows inserted in between.
CreateWkidInputs == {PyNone, PyInt(4326), PyInt(3857), PyInt(9999), PyInt(102100)}
CreateGeometryTypeInputs ==
  {NoValue, "point", "line", "polyline", "polygon", "multipoint", "circle"}

NextCreate ==
  \/ \E name \in Names, wkid \in CreateWkidInputs, gt \in CreateGeometryTypeInputs,
        overwrite \in BOOLEAN : Create(name, wkid, gt, overwrite)
  \/ \E name \in Names : Insert(name, NoValue, PyNone, "EsriJSON", "a")

SpecCreate == Init /\ [][NextCreate]_vars

\* SpecRows: rows read, assigned to and deleted through MaxRowHandles row
\* objects.  A table created as an attribute table or a feature class, rows
\* inserted, rows read under every kind of fields argument, fields assigned
\* and rows deleted through the row objects read.
MaxRowHandles == 2
RowsFieldsInputs ==
  {PyStr("*"), PyList(<<"song">>), PyTuple(<<"song">>), PyStr("song"),
   PyTuple(<<"OBJECTID", "song">>)}

InitRows ==
  /\ gpkg_contents = [n \in Names |-> NoContentsRow]
  /\ gpkg_geometry_columns = [n \in Names |-> NoGeometryRow]
  /\ gpkg_spatial_ref_sys = SeededSrs
  /\ user_tables = [n \in SqlTables |-> NoTable]
  /\ row_handles = [h \in 1..MaxRowHandles |-> NoHandle]
  /\ HASGEOMET \in BOOLEAN
  /\ table_handle = NoTableHandle
  /\ outcome = NoOutcome

NextRows ==
  \/ \E name \in TableNames, gt \in {NoValue, "point"} :
        Create(name, PyInt(4326), gt, FALSE)
  \/ \E name \in TableNames, song \in {"a", "b"} :
        Insert(name, NoValue, PyNone, "EsriJSON", song)
  \/ \E name \in TableNames, fields \in RowsFieldsInputs, oid \in 1..MaxRows,
        h \in 1..MaxRowHandles : Rows(name, fields, oid, h)
  \/ \E h \in 1..MaxRowHandles, name \in {"song", "Shape"} :
        \E value \in (IF name = "song" THEN {PyStr("b"), PyStr("c")} ELSE {PointA}) :
           SetItem(h, name, value)
  \/ \E h \in 1..MaxRowHandles : Delete(h)

SpecRows == InitRows /\ [][NextRows]_vars

\* SpecFields: schema changes through one Table object.  A table created as an
\* attribute table or a feature class, overwritten or not, a Table object obtained
\* with get, its fields read, fields added with a supported and an unsupported
\* type, fields deleted by names in either case, and a row inserted.
AddFieldNames == {"x", "song"}
DataTypeInputs == {"TEXT", "COMPLEX"}
DeleteFieldNames == {"song", "x", "Shape", "OBJECTID", "objectid", "nofield"}

NextFields ==
  \/ \E name \in TableNames, gt \in {NoValue, "point"}, overwrite \in BOOLEAN :
        Create(name, PyInt(4326), gt, overwrite)
  \/ \E name \in Names : GetTable(name)
  \/ ReadFields
  \/ \E name \in AddFieldNames, data_type \in DataTypeInputs : AddField(name, data_type)
  \/ \E name \in DeleteFieldNames : DeleteField(name)
  \/ \E name \in TableNames : Insert(name, NoValue, PyNone, "EsriJSON", "a")

SpecFields == Init /\ [][NextFields]_vars

\* ------------------------------------------------------------------ claims
Spatial(name) == gpkg_contents[name].data_type = "features"
StoredRow(name, oid) == CHOOSE r \in RowWithOid(user_tables[Lower(name)].rows, oid) : TRUE
StoredShape(name, oid) == StoredRow(name, oid)["Shape"]
DecodeLittleEndian4(b) == b[1] + 256 * b[2] + 65536 * b[3] + 16777216 * b[4]
\* four bytes read as a signed 32-bit little-endian integer
DecodeSigned4(b) ==
  b[1] + 256 * b[2] + 65536 * b[3] + 16777216 * (IF b[4] >= 128 THEN b[4] - 256 ELSE b[4])
\* the last call was a successful insert of geometry value(s) with a Shape entry
InsertedShape ==
  /\ outcome.op = "insert" /\ outcome.err = "" /\ outcome.key # NoValue
  /\ Spatial(outcome.tbl)
InsertedEsri ==
  /\ InsertedShape
  /\ outcome.val.t = "dict" /\ outcome.val.s = "esri" /\ Lower(outcome.fmt) = "esrijson"

\* C1: in a spatial table whose registered SRS id w is in 0 .. 2^31-1, the value
\* insert stores for an Esri JSON geometry is 'G' 'P', a version byte 0, one flags
\* byte, four bytes that decode (little-endian, as _srid_to_bytes writes them) to
\* w, and then, from byte 8 on, the encoded geometry.  (A last SRS byte of 128 or
\* more would be a value of 2^31 or more, which no such w is.)
C1_InsertHeader ==
  (InsertedEsri /\ Wkid(outcome.tbl).t = "int" /\ Wkid(outcome.tbl).n >= 0) =>
    LET b == StoredShape(outcome.tbl, outcome.oid).b
    IN /\ StoredShape(outcome.tbl, outcome.oid).t = "blob"
       /\ Len(b) > 8
       /\ SubSeq(b, 1, 2) = GP
       /\ b[3] = 0
       /\ b[4] \in 0..255
       /\ b[8] < 128
       /\ DecodeLittleEndian4(SubSeq(b, 5, 8)) = Wkid(outcome.tbl).n
       /\ Drop(b, 8) = dumps(outcome.val)
C1_Witness ==
  /\ InsertedEsri /\ outcome.val = PointB /\ outcome.key = "SHAPE"
  /\ Wkid(outcome.tbl) = PyInt(3857)
  /\ DecodeLittleEndian4(SubSeq(StoredShape(outcome.tbl, outcome.oid).b, 5, 8)) = 3857

\* the last call was an assignment to field outcome.key of the _Row in slot
\* outcome.h that took effect in memory
Assigned == outcome.op = "setitem" /\ Lower(outcome.key) # "objectid"
AssignedRow == row_handles[outcome.h]
AssignedOid == Get(AssignedRow.vals, "OBJECTID").n
\* the row the handle of the last assignment stands for is still stored
AssignedRowStored ==
  /\ HasKey(AssignedRow.vals, "OBJECTID")
  /\ user_tables[Lower(AssignedRow.tbl)].exists
  /\ RowWithOid(user_tables[Lower(AssignedRow.tbl)].rows, AssignedOid) # {}
\* what a fresh rows() read must find after row[key] = val: the value itself, or
\* for the geometry column the bytes the row object encodes it to
Persisted(row, key, val) ==
  IF Lower(key) = "shape" THEN SqlBlob(UpdateShape(row, val).b) ELSE Bind(val)

\* C2: write-through.  When an assignment to a field other than OBJECTID
\* returns, the stored row of that OBJECTID holds the new value in that column.
C2_WriteThrough ==
  (Assigned /\ outcome.err = "" /\ AssignedRowStored) =>
    LET t == user_tables[Lower(AssignedRow.tbl)]
    IN StoredRow(AssignedRow.tbl, AssignedOid)[Column(t.cols, outcome.key)]
         = Persisted(AssignedRow, outcome.key, outcome.val)

\* a value that already carries one of the two markers
Marked(v) ==
  /\ v.t \in {"bytes", "bytearray"}
  /\ Len(v.b) >= 2
  /\ SubSeq(v.b, 1, 2) \in {GP, GB}

\* C3: pass-through.  A geometry value that already starts with GP or GB is stored
\* byte for byte as given, by insert and by row geometry assignment.
C3_PassThrough ==
  /\ (InsertedShape /\ Marked(outcome.val)) =>
       StoredShape(outcome.tbl, outcome.oid) = SqlBlob(outcome.val.b)
  /\ (Assigned /\ Lower(outcome.key) = "shape" /\ Marked(outcome.val)
        /\ Spatial(AssignedRow.tbl) /\ AssignedRowStored) =>
       /\ outcome.err = ""
       /\ StoredShape(AssignedRow.tbl, AssignedOid) = SqlBlob(outcome.val.b)

\* C4: an absent geometry is stored as the table's header followed by the empty
\* pattern, never as NULL and never with an error, by insert and by assignment.
C4_NoneStoresEmpty ==
  /\ (outcome.op = "insert" /\ outcome.key # NoValue /\ outcome.val = PyNone
        /\ Spatial(outcome.tbl) /\ GpHeader(outcome.tbl).err = "") =>
       /\ outcome.err = ""
       /\ StoredShape(outcome.tbl, outcome.oid)
            = SqlBlob(GpHeader(outcome.tbl).b \o EMPTY_PATTERN)
  /\ (Assigned /\ Lower(outcome.key) = "shape" /\ outcome.val = PyNone
        /\ Spatial(AssignedRow.tbl) /\ AssignedRowStored) =>
       /\ outcome.err = ""
       /\ StoredShape(AssignedRow.tbl, AssignedOid)
            = SqlBlob(AssignedRow.header.b \o EMPTY_PATTERN)

\* C5: ST_IsEmpty of the value stored for an absent geometry is 1, of the value
\* stored for a geometry that is not empty 0, and of a NULL geometry None.
C5_EmptyRoundTrip ==
  (outcome.op = "insert" /\ outcome.err = "" /\ Spatial(outcome.tbl)) =>
    LET t == user_tables[Lower(outcome.tbl)]
        read == Fetch("Shape", t.shape_decl, StoredShape(outcome.tbl, outcome.oid))
    IN ST_IsEmpty(read) =
         IF outcome.key = NoValue THEN PyNone
         ELSE IF outcome.val = PyNone THEN PyInt(1)
         ELSE PyInt(0)

\* C6: in every stored geometry that carries a GP header, bit 0 of the flags byte
\* is set exactly when the geometry after the header is the empty pattern.
C6_EmptyFlag ==
  \A name \in SqlTables : \A r \in user_tables[name].rows :
    ("Shape" \in DOMAIN r /\ r["Shape"].t = "blob" /\ Len(r["Shape"].b) >= 8
       /\ SubSeq(r["Shape"].b, 1, 2) = GP) =>
      ((r["Shape"].b[4] % 2 = 1) <=> (Drop(r["Shape"].b, 8) = EMPTY_PATTERN))

\* C7: in every header built, the four SRS bytes are in the byte order that bit 5
\* of the flags byte declares (0 big-endian, 1 little-endian).
C7_ByteOrderAsDeclared ==
  (InsertedEsri /\ Wkid(outcome.tbl).t = "int" /\ Wkid(outcome.tbl).n >= 0) =>
    LET b == StoredShape(outcome.tbl, outcome.oid).b
        little == (b[4] \div 32) % 2 = 1
    IN SubSeq(b, 5, 8) = IF little THEN LittleEndian4(Wkid(outcome.tbl).n)
                         ELSE BigEndian4(Wkid(outcome.tbl).n)

\* C8: in a spatial table registered with a reserved SRS id (-1 or 0), inserting
\* an Esri JSON geometry succeeds and the four SRS bytes decode, as a signed
\* 32-bit integer, to that id.
C8_SignedSrsId ==
  (outcome.op = "insert" /\ outcome.key # NoValue /\ Spatial(outcome.tbl)
     /\ outcome.val.t = "dict" /\ outcome.val.s = "esri" /\ Lower(outcome.fmt) = "esrijson"
     /\ Wkid(outcome.tbl) \in {PyInt(-1), PyInt(0)}) =>
    /\ outcome.err = ""
    /\ DecodeSigned4(SubSeq(StoredShape(outcome.tbl, outcome.oid).b, 5, 8))
         = Wkid(outcome.tbl).n

\* the OBJECTID each row object holds, and the OBJECTIDs each table stores
HandleOids == [h \in 1..MaxHandles |->
                 IF HasKey(row_handles[h].vals, "OBJECTID")
                 THEN Get(row_handles[h].vals, "OBJECTID") ELSE PyNone]
StoredOids == [n \in SqlTables |-> {r["OBJECTID"] : r \in user_tables[n].rows}]

\* C9: assigning to OBJECTID, in any letter case, fails with an error and changes
\* neither the row object's values nor what is stored; and no assignment to a row
\* object changes the OBJECTID it holds or the OBJECTIDs stored.
C9_ObjectIdImmutable ==
  [][ (outcome'.op = "setitem") =>
        /\ HandleOids' = HandleOids
        /\ StoredOids' = StoredOids
        /\ (Lower(outcome'.key) = "objectid" =>
              /\ outcome'.err = "ValueError"
              /\ row_handles' = row_handles
              /\ user_tables' = user_tables) ]_vars
C9_Witness ==
  /\ outcome.op = "setitem" /\ outcome.key = "objectid" /\ outcome.err = "ValueError"
  /\ HandleOids[outcome.h] = PyInt(1)
  /\ StoredOids[Lower(row_handles[outcome.h].tbl)] = {SqlInt(1)}

ShapeKeys(vals) == {i \in 1..Len(vals) : Lower(vals[i].k) = "shape"}

\* C10: after any geometry assignments, however the column name is spelled, the
\* row object's value mapping holds exactly one key equal to 'shape' ignoring case.
C10_OneGeometryKey ==
  \A h \in 1..MaxHandles :
    /\ Cardinality(ShapeKeys(row_handles[h].vals)) <= 1
    /\ (Assigned /\ outcome.h = h /\ Lower(outcome.key) = "shape") =>
         Cardinality(ShapeKeys(row_handles[h].vals)) = 1

\* a value that is no geometry in any of the accepted encodings
NoGeometry(v) == v.t \notin {"dict", "str", "bytes", "bytearray", "none"}

\* C11: insert into a spatial table and assignment to the geometry of one of its
\* rows, given a value that is no dictionary, text, bytes, bytearray or None, end
\* in an error and leave every stored row as it was.
C11_InvalidGeometryRejected ==
  [][ /\ (outcome'.op = "insert" /\ outcome'.key # NoValue /\ Spatial(outcome'.tbl)
           /\ NoGeometry(outcome'.val)) =>
          (outcome'.err # "" /\ user_tables' = user_tables)
      /\ (outcome'.op = "setitem" /\ Lower(outcome'.key) = "shape"
           /\ Spatial(outcome'.tbl) /\ NoGeometry(outcome'.val)) =>
          (outcome'.err # "" /\ user_tables' = user_tables) ]_vars
C11_Witness ==
  /\ outcome.op = "setitem" /\ outcome.key = "Shape" /\ outcome.val = PyInt(5)
  /\ outcome.err = "ValueError"
  /\ Spatial(outcome.tbl)
  /\ AssignedRowStored
  /\ StoredRow(outcome.tbl, AssignedOid)["song"] = SqlText("b")

\* the schema state: user tables with their rows, and the two registries
Schema == <<user_tables, gpkg_contents, gpkg_geometry_columns>>

\* C12: a create call that fails leaves the user tables, their rows and the rows
\* of gpkg_contents and gpkg_geometry_columns exactly as they were.
C12_FailedCreateChangesNothing ==
  [][ (outcome'.op = "create" /\ outcome'.err # "") => Schema' = Schema ]_vars

HasGeometryRow(n) == gpkg_geometry_columns[n].column_name # ""
Registered(n) == gpkg_contents[n].data_type # ""

\* C13: every srs_id in gpkg_geometry_columns has a row in gpkg_spatial_ref_sys
\* (the seeded sentinel ids -1 and 0 have theirs from the start), whatever create
\* calls, successful or failed, came before.
C13_GeometrySrsRegistered ==
  \A n \in Names :
    HasGeometryRow(n) =>
      /\ gpkg_geometry_columns[n].srs_id.t = "int"
      /\ gpkg_geometry_columns[n].srs_id.n \in gpkg_spatial_ref_sys

\* the names under which gpkg_geometry_columns registers a geometry column for
\* user table t
GeometryRowsOf(t) == {n \in Names : Lower(n) = t /\ HasGeometryRow(n)}

\* C14: no table has more than one row in gpkg_geometry_columns.
C14_OneGeometryColumnPerTable ==
  \A t \in SqlTables : Cardinality(GeometryRowsOf(t)) <= 1

\* C15: the geometry type name registered for a spatial table, which is also the
\* declared type of its Shape column, is one of the six OGC names.
C15_GeometryTypeName ==
  \A n \in Names :
    HasGeometryRow(n) =>
      /\ gpkg_geometry_columns[n].geometry_type_name \in RegisteredConverters
      /\ (user_tables[Lower(n)].exists /\ "Shape" \in SeqToSet(user_tables[Lower(n)].cols)) =>
            user_tables[Lower(n)].shape_decl \in RegisteredConverters

\* the user tables that gpkg_contents registers
RegisteredTables == {Lower(n) : n \in {m \in Names : Registered(m)}}

\* C19: len(gpkg) is the number of distinct tables registered and the number of
\* table objects gpkg.tables yields.
C19_LenCountsTables ==
  /\ GeoPackageLen = Cardinality(RegisteredTables)
  /\ GeoPackageLen = Cardinality(Tables)

\* C20: when create(name, overwrite=True) on a registered name returns, the table
\* has no rows, has the schema just asked for, is registered once in
\* gpkg_contents, and has one row in gpkg_geometry_columns if it is spatial and
\* none if it is an attribute table.
C20_OverwriteRecreates ==
  [][ \A name \in Names :
        (outcome'.op = "create" /\ outcome'.tbl = name /\ outcome'.overwrite
           /\ outcome'.err = "" /\ Exists(name)) =>
          LET t == Lower(name)
              spatial == gpkg_contents'[name].data_type = "features"
          IN /\ user_tables'[t].exists
             /\ user_tables'[t].rows = {}
             /\ user_tables'[t].cols = IF spatial THEN <<"OBJECTID", "Shape", "song">>
                                       ELSE <<"OBJECTID", "song">>
             /\ Cardinality({n \in Names : Lower(n) = t /\ Registered(n)'}) = 1
             /\ Cardinality(GeometryRowsOf(t)') = IF spatial THEN 1 ELSE 0 ]_vars

\* the ids a call of lookup_coordinate_system asked for
Requested(v) == IF v.t = "int" THEN {v.n} ELSE SeqToSet(v.b)

\* C18: lookup_coordinate_system, given an id or a list of ids, returns a record
\* for every id asked for when all of them are in the built-in table, and raises
\* an error when one of them is not.
C18_LookupEveryId ==
  (outcome.op = "lookup" /\ outcome.val.t \in {"int", "list"}
     /\ Requested(outcome.val) # {} /\ 102100 \notin Requested(outcome.val)) =>
    IF Requested(outcome.val) \subseteq SeqToSet(LookupRows)
    THEN outcome.err = "" /\ SeqToSet(outcome.res.b) = Requested(outcome.val)
    ELSE outcome.err # ""

\* C16: _strip_header of a buffer whose first two bytes are 'GB' is the buffer
\* itself, the same bytes in the same number.
C16_StripKeepsGB ==
  (outcome.op = "_strip_header" /\ Prefix(outcome.val.b, 2) = GB) =>
    outcome.res = outcome.val

\* the multipoints whose stored value (under the header insert writes) is b
StoredAs(b) ==
  {pts \in MultiPoints : b = GP \o <<0, 1>> \o LittleEndian4(4326) \o dumpsMultiPoint(pts)}
Min(S) == CHOOSE x \in S : \A y \in S : x <= y
Max(S) == CHOOSE x \in S : \A y \in S : y <= x
Ordinate(pts, i) == {pts[k][i] : k \in 1..Len(pts)}
PyFloat(x) == [s |-> "", n |-> x, b |-> <<>>, t |-> "float"]

\* C17: ST_MinX, ST_MinY, ST_MaxX and ST_MaxY of a stored geometry that is not
\* empty return the least and the greatest x and y over all its coordinates.
C17_Envelope ==
  \A pts \in StoredAs(outcome.val.b) :
    (outcome.op \in EnvelopeFunctions) =>
      /\ outcome.err = ""
      /\ outcome.res =
           (CASE outcome.op = "ST_MinX" -> PyFloat(Min(Ordinate(pts, 1)))
              [] outcome.op = "ST_MinY" -> PyFloat(Min(Ordinate(pts, 2)))
              [] outcome.op = "ST_MaxX" -> PyFloat(Max(Ordinate(pts, 1)))
              [] outcome.op = "ST_MaxY" -> PyFloat(Max(Ordinate(pts, 2))))

\* C21: create with overwrite=False on a name for which exists(name) is true (a
\* registered name equals it when letter case is ignored)
\* raises ValueError and leaves the user tables, their rows, the rows of
\* gpkg_contents and gpkg_geometry_columns and the SRS table as they were.
C21_CreateExistingRejected ==
  [][ (outcome'.op = "create" /\ ~outcome'.overwrite
         /\ Lower(outcome'.tbl) \in RegisteredTables) =>
        /\ outcome'.err = "ValueError"
        /\ Schema' = Schema
        /\ gpkg_spatial_ref_sys' = gpkg_spatial_ref_sys ]_vars
\* a rejected create on a name that differs in case from a table holding a row
C21_Witness ==
  /\ outcome.op = "create" /\ ~outcome.overwrite /\ outcome.err = "ValueError"
  /\ ~Registered(outcome.tbl)
  /\ Lower(outcome.tbl) \in RegisteredTables
  /\ user_tables[Lower(outcome.tbl)].rows # {}

\* C22: a create call that returns gives a SpatialTable when a geometry_type was
\* passed and a Table otherwise, and get(name) then gives an object of that same
\* class; and a name no create call has succeeded for stays unknown to get: when
\* get(name) is None and create(name, ...) fails, get(name) is still None.
C22_CreateAndGetKinds ==
  [][ \A name \in Names :
        (outcome'.op = "create" /\ outcome'.tbl = name) =>
          /\ (outcome'.err = "") =>
                /\ outcome'.res.s = (IF outcome'.key = NoValue THEN "Table"
                                     ELSE "SpatialTable")
                /\ GeoPackageGet(name)' = outcome'.res.s
          /\ (outcome'.err # "" /\ GeoPackageGet(name) = "None") =>
                GeoPackageGet(name)' = "None" ]_vars

\* the columns of the table the last call created
CreatedColumns == SeqToSet(user_tables[Lower(outcome.tbl)].cols)

\* C23: every user table has an OBJECTID column, whatever add_field and
\* delete_field calls came before; and the table a create call has just made has
\* the requested fields (here song) plus OBJECTID, and plus Shape when it is a
\* feature class, and no other column.
C23_ObjectIdPresent ==
  /\ \A n \in SqlTables :
       user_tables[n].exists => "OBJECTID" \in SeqToSet(user_tables[n].cols)
  /\ (outcome.op = "create" /\ outcome.err = "") =>
       CreatedColumns = (IF outcome.key = NoValue THEN {"OBJECTID", "song"}
                         ELSE {"OBJECTID", "Shape", "song"})

\* the Table object has seen every schema change: what its fields property
\* returns is what the table has
HandleCurrent == Fields(table_handle) = TableInfo(table_handle.tbl)

YieldedRow == row_handles[outcome.h]

\* C25: a row that rows yields has an OBJECTID key, whether fields is "*", a
\* list, a tuple or a column name given as a string; and for a list of fields
\* its keys are the fields asked for followed by OBJECTID.
C25_RowsCarryObjectId ==
  (outcome.op = "rows" /\ outcome.err = "") =>
    /\ HasKey(YieldedRow.vals, "OBJECTID")
    /\ (outcome.val.t = "list" /\ "OBJECTID" \notin SeqToSet(outcome.val.b)) =>
         Keys(YieldedRow.vals) = Append(outcome.val.b, "OBJECTID")

\* the stored rows of its table that the row object in slot h shows: every value
\* the object holds is what a read of that column of the row gives
Matching(h) ==
  LET row == row_handles[h]
      t == user_tables[Lower(row.tbl)]
  IN {r \in t.rows :
        \A i \in 1..Len(row.vals) :
           /\ row.vals[i].k \in DOMAIN r
           /\ Fetch(row.vals[i].k, t.shape_decl, r[row.vals[i].k]) = row.vals[i].v}
StoredRows(name) == user_tables[Lower(name)].rows
\* the stored rows the row object in slot h stands for: the row of the OBJECTID
\* it holds (OBJECTIDs are not reused while the table lives), or, for an object
\* without that key, the rows it shows
ShownRows(h) ==
  IF HasKey(row_handles[h].vals, "OBJECTID")
  THEN RowWithOid(StoredRows(row_handles[h].tbl), Get(row_handles[h].vals, "OBJECTID").n)
  ELSE Matching(h)

\* C26: the rows of a table are the rows inserted and not deleted.  (a) An
\* insert that succeeds adds exactly one row and keeps the others; (b) a delete
\* that returns True through a row object removes the stored row that object
\* stands for and no other; (c) rows(where="OBJECTID=n") yields the stored row
\* whose OBJECTID is n; (d) reading rows and assigning fields neither add
\* nor remove a row.
C26_RowsAreInsertedMinusDeleted ==
  [][ \A name \in TableNames, h \in 1..MaxRowHandles :
        (outcome'.tbl = name /\ outcome'.h \in {0, h}) =>
          /\ (outcome'.op = "insert" /\ outcome'.err = "") =>
                /\ StoredRows(name) \subseteq StoredRows(name)'
                /\ Cardinality(StoredRows(name)') = Cardinality(StoredRows(name)) + 1
          /\ (outcome'.op = "delete" /\ outcome'.err = "" /\ outcome'.h = h) =>
                StoredRows(name)' = StoredRows(name) \ ShownRows(h)
          /\ (outcome'.op = "rows" /\ outcome'.err = "" /\ outcome'.h = h) =>
                Matching(h)' = RowWithOid(StoredRows(name), outcome'.oid)
          /\ (outcome'.op \in {"rows", "setitem"}) =>
                Cardinality(StoredRows(name)') = Cardinality(StoredRows(name)) ]_vars

\* the stored rows of table name that the row object in slot h does not stand for
OtherRows(name, h) == StoredRows(name) \ ShownRows(h)
\* row r2 is row r with at most column f changed
SameButColumn(r, r2, f) ==
  /\ DOMAIN r2 = DOMAIN r
  /\ \A c \in DOMAIN r : Lower(c) = Lower(f) \/ r2[c] = r[c]

\* C27: assigning field f through a row object changes only column f of that
\* object's row in storage: every other column of the row, the stored geometry
\* bytes included, keeps the value stored just before the assignment (also when
\* it was changed through another row object after this one was read), and
\* every other row of the table is unchanged.
C27_AssignmentFrame ==
  [][ \A name \in TableNames, h \in 1..MaxRowHandles, f \in {"song", "Shape"} :
        (outcome'.op = "setitem" /\ outcome'.tbl = name /\ outcome'.h = h
           /\ outcome'.key = f) =>
          /\ OtherRows(name, h) \subseteq StoredRows(name)'
          /\ Cardinality(StoredRows(name)') = Cardinality(StoredRows(name))
          /\ \A r \in ShownRows(h) :
                \E r2 \in StoredRows(name)' : SameButColumn(r, r2, f) ]_vars

====
